---- MODULE Spec2Model ----
(***************************************************************************)
(* git-stitch / git-rip (philz/git-mono).                                  *)
(*                                                                         *)
(* git objects are modelled by their content: a tree is a function from    *)
(* paths to entries, a commit is a record that holds its tree, its parent  *)
(* commits and its header fields.  Two objects have the same hash exactly  *)
(* when they are equal, as in a content-addressed store.                   *)
(***************************************************************************)
EXTENDS Integers, Sequences, FiniteSets, TLC

VARIABLES
    tracking,     \* stitch: repository -> (ref -> commit), the remote-tracking refs
    prevStitch,   \* stitch: the run before the last one (or NoRun)
    lastStitch,   \* stitch: the last git-stitch run, its inputs and its result
    head,         \* rip: the commit HEAD names in the monorepo (checked out, clean)
    refs,         \* rip: branch name -> commit
    pc,           \* rip: "idle", "commits" or "branches"
    run,          \* rip: the locals of main while a run is in progress
    derived,      \* rip: the commits this run created, each with the commit it comes from
    prevRip,      \* rip: the run that ended before the last one (or NoRun)
    lastRip,      \* rip: the run that ended last (or NoRun)
    nruns,        \* rip: the number of runs started
    nstitch,      \* stitch: the number of runs
    config,       \* init: repository -> (key -> value), the git configuration
    prevInit,     \* init: the run of a subcommand (init, rebase, explode) before the last one
    lastInit,     \* init: the last run of a subcommand, its inputs and its result (or NoRun)
    ninit         \* init: the number of runs, and of commits made between them

vars == <<tracking, prevStitch, lastStitch, head, refs, pc, run, derived, prevRip, lastRip, nruns,
          nstitch, config, prevInit, lastInit, ninit>>

stitchVars == <<tracking, prevStitch, lastStitch, nstitch>>
initVars == <<config, prevInit, lastInit, ninit>>
ripVars == <<head, refs, pc, run, derived, prevRip, lastRip, nruns>>

-----------------------------------------------------------------------------
(* Bounds of the model.                                                    *)

MaxRefs == 2
MaxCommits == 2
MaxChanges == 2
MaxRuns == 2

-----------------------------------------------------------------------------
(* Strings, names and their order.                                         *)

\* The names that occur, in the byte order sort.Strings uses.
NameOrder == <<"a", "b", "x", "z">>

Rank(n) == CHOOSE i \in 1..Len(NameOrder) : NameOrder[i] = n

RECURSIVE SortStrings(_)
SortStrings(S) ==
    IF S = {} THEN <<>>
    ELSE LET m == CHOOSE x \in S : \A y \in S : Rank(x) <= Rank(y)
         IN  <<m>> \o SortStrings(S \ {m})

Range(s) == {s[i] : i \in 1..Len(s)}

Max(x, y) == IF x > y THEN x ELSE y

\* strings.TrimSpace on a message held as a sequence of characters.
IsSpace(c) == c \in {" ", "\n"}

RECURSIVE TrimLeft(_)
TrimLeft(s) ==
    IF s = <<>> THEN s
    ELSE IF IsSpace(Head(s)) THEN TrimLeft(Tail(s)) ELSE s

RECURSIVE TrimRight(_)
TrimRight(s) ==
    IF s = <<>> THEN s
    ELSE IF IsSpace(s[Len(s)]) THEN TrimRight(SubSeq(s, 1, Len(s) - 1)) ELSE s

TrimSpace(s) == TrimRight(TrimLeft(s))

\* strings.SplitN(path, "/", 2) on a path held as its sequence of segments:
\* the first segment and the rest, or the path alone when it has no "/".
SplitN2(p) == IF Len(p) >= 2 THEN <<p[1], Tail(p)>> ELSE <<p>>

-----------------------------------------------------------------------------
(* The object model of git.                                                *)

F1 == [mode |-> "100644", blob |-> "b1"]
F2 == [mode |-> "100644", blob |-> "b2"]
L1 == [mode |-> "120000", blob |-> "b1"]

\* The subtree of `tree` at top-level directory k: git rev-parse <commit>:<k>.
SubTree(tree, k) ==
    [p \in {Tail(q) : q \in {r \in DOMAIN tree : Len(r) >= 2 /\ r[1] = k}}
        |-> tree[<<k>> \o p]]

\* The top-level directories of a tree: the "tree" entries of git ls-tree.
TopDirs(tree) == {q[1] : q \in {r \in DOMAIN tree : Len(r) >= 2}}

\* git mktree over the entries "040000 tree <root of sub[k]> <k>".
MkTree(sub) ==
    [q \in UNION {{<<k>> \o p : p \in DOMAIN sub[k]} : k \in DOMAIN sub}
        |-> sub[q[1]][Tail(q)]]

\* A date given to git as a bare number of seconds carries no zone.
NoZone == "none"
BareEpoch(n) == [epoch |-> n, zone |-> NoZone]

\* git's parse of GIT_AUTHOR_DATE / GIT_COMMITTER_DATE: a bare epoch is
\* recorded with the zone of the process (TZ).
ParseDate(d, tz) == [time |-> d.epoch, zone |-> IF d.zone = NoZone THEN tz ELSE d.zone]

\* cmd.Env = append(os.Environ(), assignments...): the last assignment of a key wins.
EnvAppend(osEnv, assignments) ==
    [k \in DOMAIN osEnv \cup DOMAIN assignments |->
        IF k \in DOMAIN assignments THEN assignments[k] ELSE osEnv[k]]

EnvOr(env, key, default) == IF key \in DOMAIN env THEN env[key] ELSE default

\* -m <message>: git ends the message with a newline when it has none.
CompleteLine(m) == IF m = <<>> \/ m[Len(m)] = "\n" THEN m ELSE Append(m, "\n")

\* git commit-tree <tree> -p <parents...> -m <message> run with environment env
\* by a user whose configured identity is `ident`, at wall-clock time `now`.
CommitTree(tree, parents, message, env, ident, now) ==
    LET tz == EnvOr(env, "TZ", "+0000")
        wall == [epoch |-> now, zone |-> NoZone]
        ad == ParseDate(EnvOr(env, "GIT_AUTHOR_DATE", wall), tz)
        cd == ParseDate(EnvOr(env, "GIT_COMMITTER_DATE", wall), tz)
    IN  [tree |-> tree,
         parents |-> parents,
         message |-> CompleteLine(message),
         authorName |-> EnvOr(env, "GIT_AUTHOR_NAME", ident.name),
         authorEmail |-> EnvOr(env, "GIT_AUTHOR_EMAIL", ident.email),
         authorTime |-> ad.time,
         authorZone |-> ad.zone,
         committerName |-> EnvOr(env, "GIT_COMMITTER_NAME", ident.name),
         committerEmail |-> EnvOr(env, "GIT_COMMITTER_EMAIL", ident.email),
         committerTime |-> cd.time,
         committerZone |-> cd.zone]

RECURSIVE IsAncestor(_, _)
\* c is d or an ancestor of d.
IsAncestor(c, d) ==
    \/ c = d
    \/ \E i \in 1..Len(d.parents) : IsAncestor(c, d.parents[i])

-----------------------------------------------------------------------------
(* The repositories git-stitch runs in, and what their remotes hold.       *)

Person(n) == [name |-> n, email |-> n \o "@example.com"]

\* A commit somebody made upstream, with `git commit`.
UserCommit(tree, parents, message, who, when) ==
    CommitTree(tree, parents, message, ("TZ" :> "+0000"), Person(who), when)

CA1 == UserCommit((<<"f">> :> F1) @@ (<<"d", "g">> :> F1), <<>>, <<"init">>, "ann", 1)
CA2 == UserCommit((<<"f">> :> F2), <<CA1>>, <<"more">>, "ann", 3)
CB1 == UserCommit((<<"f">> :> F2), <<>>, <<"init">>, "bob", 2)
CB2 == UserCommit((<<"f">> :> F1), <<CB1>>, <<"dev">>, "bob", 4)

\* What a fetch of each remote brings: the branches the remote has now.
Upstream ==
    (<<"a", "main">> :> CA2) @@ (<<"b", "main">> :> CB1) @@ (<<"b", "dev">> :> CB2)

Repos == {"r1", "r2"}

\* `git remote get-url <remote>` succeeds for these.
Remotes == {"a", "b"}

\* user.name / user.email of each repository's configuration.
RepoIdent == [r \in Repos |-> IF r = "r1" THEN Person("u1") ELSE Person("u2")]

\* The remote-tracking refs each clone starts with: r1 has not fetched a since
\* CA1, r2 has never seen b/dev.
InitTracking ==
    [r \in Repos |->
        IF r = "r1"
        THEN (<<"a", "main">> :> CA1) @@ (<<"b", "main">> :> CB1) @@ (<<"b", "dev">> :> CB2)
        ELSE (<<"a", "main">> :> CA2) @@ (<<"b", "main">> :> CB1)]

\* git fetch <remote>: the remote's branches replace the tracking refs of that remote.
Fetch(trk, remote) ==
    LET got == {r \in DOMAIN Upstream : r[1] = remote}
    IN  [r \in DOMAIN trk \cup got |-> IF r \in got THEN Upstream[r] ELSE trk[r]]

\* The refs a command line may name: three that resolve, one without a "/",
\* one whose remote does not exist.
RefArgs == {<<"a", "main">>, <<"b", "main">>, <<"b", "dev">>, <<"a">>, <<"z", "main">>}

RECURSIVE SeqsUpTo(_, _)
SeqsUpTo(S, n) ==
    IF n = 0 THEN {<<>>}
    ELSE LET shorter == SeqsUpTo(S, n - 1)
         IN  shorter \cup {Append(s, x) : s \in shorter, x \in S}

\* The environment and the clock git-stitch is started with: plain, or later in
\* another zone with an identity and dates exported by the user.
Invocations ==
    { [env |-> ("TZ" :> "+0000"), now |-> 5],
      [env |-> ("TZ" :> "+0100") @@ ("GIT_AUTHOR_NAME" :> "eve")
                 @@ ("GIT_AUTHOR_EMAIL" :> "eve@example.com")
                 @@ ("GIT_COMMITTER_NAME" :> "eve")
                 @@ ("GIT_COMMITTER_EMAIL" :> "eve@example.com")
                 @@ ("GIT_AUTHOR_DATE" :> [epoch |-> 9, zone |-> "+0900"])
                 @@ ("GIT_COMMITTER_DATE" :> [epoch |-> 9, zone |-> "+0900"]),
       now |-> 6] }

-----------------------------------------------------------------------------
(* git-stitch: main.                                                       *)

StitchMessage == <<"git-stitch merge">>

NoCommit == [none |-> TRUE]
NoRun == [exit |-> -1]

\* The loop over the refs of the command line.  Returns the tracking refs as
\* the fetches left them, and on success remoteCommits and maxTimestamp.
RECURSIVE StitchLoop(_, _, _, _, _, _)
StitchLoop(args, i, trk, remoteCommits, maxTimestamp, noFetch) ==
    IF i > Len(args)
    THEN [ok |-> TRUE, trk |-> trk, remoteCommits |-> remoteCommits,
          maxTimestamp |-> maxTimestamp]
    ELSE
        LET ref == args[i]
            parts == SplitN2(ref)
            failed(t) == [ok |-> FALSE, trk |-> t, remoteCommits |-> remoteCommits,
                          maxTimestamp |-> maxTimestamp]
        IN  IF Len(parts) # 2 THEN failed(trk)
            ELSE IF parts[1] \notin Remotes THEN failed(trk)
            ELSE
                LET remote == parts[1]
                    trk2 == IF noFetch THEN trk ELSE Fetch(trk, remote)
                IN  IF ref \notin DOMAIN trk2 THEN failed(trk2)
                    ELSE StitchLoop(args, i + 1, trk2,
                                    (remote :> trk2[ref]) @@ remoteCommits,
                                    Max(maxTimestamp, trk2[ref].committerTime),
                                    noFetch)

\* The environment main gives `git commit-tree`.
StitchEnv(osEnv, maxTimestamp) ==
    EnvAppend(osEnv,
        ("GIT_AUTHOR_NAME" :> "git-stitch")
        @@ ("GIT_AUTHOR_EMAIL" :> "git-stitch@localhost")
        @@ ("GIT_COMMITTER_NAME" :> "git-stitch")
        @@ ("GIT_COMMITTER_EMAIL" :> "git-stitch@localhost")
        @@ ("GIT_AUTHOR_DATE" :> BareEpoch(maxTimestamp))
        @@ ("GIT_COMMITTER_DATE" :> BareEpoch(maxTimestamp)))

\* The synthetic tree and the commit: one directory and one parent per remote,
\* in the sorted order of the remotes.
StitchCommit(remoteCommits, maxTimestamp, osEnv, ident, now) ==
    LET remotes == SortStrings(DOMAIN remoteCommits)
        treeHash == MkTree([k \in DOMAIN remoteCommits |-> remoteCommits[k].tree])
        parents == [i \in 1..Len(remotes) |-> remoteCommits[remotes[i]]]
    IN  CommitTree(treeHash, parents, StitchMessage,
                   StitchEnv(osEnv, maxTimestamp), ident, now)

\* The run, were it to build the commit although the loop stopped at a ref.
StitchRunDespiteFailure(repo, noFetch, args, inv) ==
    LET r == StitchLoop(args, 1, tracking[repo], <<>>, 0, noFetch)
        good == Len(args) > 0
    IN  /\ tracking' = [tracking EXCEPT ![repo] = IF Len(args) > 0 THEN r.trk ELSE @]
        /\ nstitch < MaxRuns
        /\ nstitch' = nstitch + 1
        /\ prevStitch' = lastStitch
        /\ lastStitch' =
              [repo |-> repo, noFetch |-> noFetch, args |-> args,
               env |-> inv.env, now |-> inv.now,
               exit |-> IF good THEN 0 ELSE 1,
               resolved |-> IF good /\ r.ok THEN [x \in Range(args) |-> r.trk[x]] ELSE <<>>,
               commit |-> IF good
                          THEN StitchCommit(r.remoteCommits, r.maxTimestamp,
                                            inv.env, RepoIdent[repo], inv.now)
                          ELSE NoCommit]
        /\ UNCHANGED <<ripVars, initVars>>

\* One run of git-stitch [-no-fetch] args... in repository repo.
StitchRun(repo, noFetch, args, inv) ==
    LET r == StitchLoop(args, 1, tracking[repo], <<>>, 0, noFetch)
        good == Len(args) > 0 /\ r.ok
    IN  /\ tracking' = [tracking EXCEPT ![repo] = IF Len(args) > 0 THEN r.trk ELSE @]
        /\ nstitch < MaxRuns
        /\ nstitch' = nstitch + 1
        /\ prevStitch' = lastStitch
        /\ lastStitch' =
              [repo |-> repo, noFetch |-> noFetch, args |-> args,
               env |-> inv.env, now |-> inv.now,
               exit |-> IF good THEN 0 ELSE 1,
               resolved |-> IF good THEN [x \in Range(args) |-> r.trk[x]] ELSE <<>>,
               commit |-> IF good
                          THEN StitchCommit(r.remoteCommits, r.maxTimestamp,
                                            inv.env, RepoIdent[repo], inv.now)
                          ELSE NoCommit]
        /\ UNCHANGED <<ripVars, initVars>>

-----------------------------------------------------------------------------
(* git-stitch init: handleInit.                                            *)

\* The branch refs/remotes/<remote>/HEAD names once the remote is fetched.
RemoteHead == ("a" :> "main") @@ ("b" :> "dev")

\* Hours east of Greenwich; the clock of the model counts hours.
Offset(zone) ==
    IF zone = "+0100" THEN 1 ELSE IF zone = "+0200" THEN 2 ELSE IF zone = "+0900" THEN 9 ELSE 0

\* git log -1 --format=%aI: the author date in ISO 8601, local time then zone.
getCommitDate(c) == [epoch |-> c.authorTime, zone |-> c.authorZone]

\* date > maxDate on the ISO strings: the local time decides, then the zone.
IsoGreater(d, e) ==
    \/ d.epoch + Offset(d.zone) > e.epoch + Offset(e.zone)
    \/ d.epoch + Offset(d.zone) = e.epoch + Offset(e.zone) /\ Offset(d.zone) > Offset(e.zone)

RECURSIVE MaxDateFrom(_, _, _)
MaxDateFrom(commits, i, maxDate) ==
    IF i > Len(commits) THEN maxDate
    ELSE LET date == getCommitDate(commits[i])
         IN  MaxDateFrom(commits, i + 1,
                         IF maxDate = NoCommit \/ IsoGreater(date, maxDate) THEN date
                         ELSE maxDate)

\* The greatest of the commits' dates, as strings.
getMaxCommitDate(commits) == MaxDateFrom(commits, 1, NoCommit)

InitMessage == <<"Monorepo initialization">>

\* git commit-tree with the fixed identity and the greatest parent date.
createDeterministicCommit(treeHash, message, parents, osEnv, ident, now) ==
    LET commitDate == getMaxCommitDate(parents)
        env == EnvAppend(osEnv,
                   ("GIT_AUTHOR_NAME" :> "git-stitch")
                   @@ ("GIT_AUTHOR_EMAIL" :> "git-stitch@deterministic")
                   @@ ("GIT_AUTHOR_DATE" :> commitDate)
                   @@ ("GIT_COMMITTER_NAME" :> "git-stitch")
                   @@ ("GIT_COMMITTER_EMAIL" :> "git-stitch@deterministic")
                   @@ ("GIT_COMMITTER_DATE" :> commitDate))
    IN  CommitTree(treeHash, parents, message, env, ident, now)

RECURSIVE FetchAll(_, _)
\* git fetch of each remote of the list.
FetchAll(trk, remotes) ==
    IF remotes = <<>> THEN trk ELSE FetchAll(Fetch(trk, Head(remotes)), Tail(remotes))

\* The remote names a command line of init may hold: two remotes and a name
\* that is no remote, none of them twice.
InitArgs ==
    {s \in SeqsUpTo({"a", "b", "z"}, MaxRefs) : \A i, j \in 1..Len(s) : s[i] = s[j] => i = j}

\* The configuration handleInit stores: three keys per remote, two for all.
ConfigWritten(remotes, commitHash) ==
    LET perRemote(i) ==
            ("remote." \o remotes[i].Remote \o ".mono-branch" :> remotes[i].Branch)
            @@ ("remote." \o remotes[i].Remote \o ".mono-subdir" :> remotes[i].Subdir)
            @@ ("remote." \o remotes[i].Remote \o ".mono-dir" :> remotes[i].Dir)
        keys == UNION {DOMAIN perRemote(i) : i \in 1..Len(remotes)}
    IN  [k \in keys |-> LET i == CHOOSE j \in 1..Len(remotes) : k \in DOMAIN perRemote(j)
                        IN  perRemote(i)[k]]
        @@ ("mono.remotes" :> [i \in 1..Len(remotes) |-> remotes[i].Remote])
        @@ ("mono.init-commit" :> commitHash)

\* The run, were it to accept a single remote name.
InitRunOneRemote(repo, args, inv) ==
    LET known == {i \in 1..Len(args) : args[i] \notin Remotes}
        upTo == IF known = {} THEN Len(args)
                ELSE (CHOOSE i \in known : \A j \in known : i <= j) - 1
        good == Len(args) >= 1 /\ known = {}
        trk == IF Len(args) < 1 THEN tracking[repo]
               ELSE FetchAll(tracking[repo], SubSeq(args, 1, upTo))
        remotes == [i \in 1..Len(args) |->
                       [Remote |-> args[i], Branch |-> RemoteHead[args[i]],
                        Subdir |-> ".", Dir |-> args[i]]]
        parentCommits == [i \in 1..Len(args) |-> trk[<<args[i], remotes[i].Branch>>]]
        treeHash == MkTree([k \in Range(args) |->
                               trk[<<k, RemoteHead[k]>>].tree])
        commitHash == createDeterministicCommit(treeHash, InitMessage, parentCommits,
                                                inv.env, RepoIdent[repo], inv.now)
    IN  /\ ninit < MaxRuns
        /\ ninit' = ninit + 1
        /\ tracking' = [tracking EXCEPT ![repo] = trk]
        /\ prevInit' = lastInit
        /\ lastInit' = [repo |-> repo, args |-> args, env |-> inv.env,
                        exit |-> IF good THEN 0 ELSE 1,
                        remotes |-> IF good THEN remotes ELSE <<>>,
                        commit |-> IF good THEN commitHash ELSE NoCommit]
        /\ config' = [config EXCEPT ![repo] =
                          IF good THEN ConfigWritten(remotes, commitHash) @@ @ ELSE @]
        /\ UNCHANGED <<prevStitch, lastStitch, nstitch>>
        /\ UNCHANGED ripVars

\* One run of `git-stitch init args...` in repository repo.
InitRun(repo, args, inv) ==
    LET known == {i \in 1..Len(args) : args[i] \notin Remotes}
        upTo == IF known = {} THEN Len(args)
                ELSE (CHOOSE i \in known : \A j \in known : i <= j) - 1
        good == Len(args) >= 2 /\ known = {}
        trk == IF Len(args) < 2 THEN tracking[repo]
               ELSE FetchAll(tracking[repo], SubSeq(args, 1, upTo))
        remotes == [i \in 1..Len(args) |->
                       [Remote |-> args[i], Branch |-> RemoteHead[args[i]],
                        Subdir |-> ".", Dir |-> args[i]]]
        parentCommits == [i \in 1..Len(args) |-> trk[<<args[i], remotes[i].Branch>>]]
        treeHash == MkTree([k \in Range(args) |->
                               trk[<<k, RemoteHead[k]>>].tree])
        commitHash == createDeterministicCommit(treeHash, InitMessage, parentCommits,
                                                inv.env, RepoIdent[repo], inv.now)
    IN  /\ ninit < MaxRuns
        /\ ninit' = ninit + 1
        /\ tracking' = [tracking EXCEPT ![repo] = trk]
        /\ prevInit' = lastInit
        /\ lastInit' = [repo |-> repo, args |-> args, env |-> inv.env,
                        exit |-> IF good THEN 0 ELSE 1,
                        remotes |-> IF good THEN remotes ELSE <<>>,
                        commit |-> IF good THEN commitHash ELSE NoCommit]
        /\ config' = [config EXCEPT ![repo] =
                          IF good THEN ConfigWritten(remotes, commitHash) @@ @ ELSE @]
        /\ UNCHANGED <<prevStitch, lastStitch, nstitch>>
        /\ UNCHANGED ripVars

\* The remote specifications read back from the configuration: an error when
\* stitch.remotes or one of a remote's three keys is missing.
loadRemoteSpecs(cfg) ==
    IF "stitch.remotes" \notin DOMAIN cfg THEN [ok |-> FALSE, specs |-> <<>>]
    ELSE LET remoteNames == cfg["stitch.remotes"]
             prefix(i) == "remote." \o remoteNames[i]
             missing == {i \in 1..Len(remoteNames) :
                            \/ prefix(i) \o ".stitch-branch" \notin DOMAIN cfg
                            \/ prefix(i) \o ".stitch-subdir" \notin DOMAIN cfg
                            \/ prefix(i) \o ".stitch-dir" \notin DOMAIN cfg}
         IN  IF remoteNames = <<>> \/ missing # {} THEN [ok |-> FALSE, specs |-> <<>>]
             ELSE [ok |-> TRUE,
                   specs |-> [i \in 1..Len(remoteNames) |->
                                 [Remote |-> remoteNames[i],
                                  Branch |-> cfg[prefix(i) \o ".stitch-branch"],
                                  Subdir |-> cfg[prefix(i) \o ".stitch-subdir"],
                                  Dir |-> cfg[prefix(i) \o ".stitch-dir"]]]]

-----------------------------------------------------------------------------
(* The monorepo git-rip runs in.                                           *)

\* The base: what `git-stitch a/main b/main` made in r1, checked out as HEAD.
BaseCommit ==
    StitchCommit(("a" :> CA1) @@ ("b" :> CB1), 2, ("TZ" :> "+0000"), RepoIdent["r1"], 4)

\* The paths composite commits touch, in the order git lists them: two files
\* of component a (one in a subdirectory), one of component b, a top-level
\* file and a file under a directory that is no component.
PathOrder == << <<"a", "d", "g">>, <<"a", "f">>, <<"b", "f">>, <<"f">>, <<"x", "f">> >>

Paths == Range(PathOrder)

Absent == [absent |-> TRUE]

\* What a commit may leave at each path: a file with one of two contents, a
\* symbolic link, nothing.
Contents(p) ==
    IF p = <<"a", "f">> THEN {F1, F2, L1, Absent}
    ELSE IF p = <<"b", "f">> THEN {F1, F2}
    ELSE IF p = <<"f">> THEN {F2, Absent}
    ELSE {F1, Absent}

At(tree, p) == IF p \in DOMAIN tree THEN tree[p] ELSE Absent

\* tree with path p set to entry e, or removed when e is Absent.
Put(tree, p, e) ==
    IF e = Absent THEN [q \in DOMAIN tree \ {p} |-> tree[q]]
    ELSE [q \in DOMAIN tree \cup {p} |-> IF q = p THEN e ELSE tree[q]]

\* The tree after a set of edits (a function from paths to entries or Absent).
Edited(tree, edit) ==
    [q \in {r \in DOMAIN tree \cup DOMAIN edit : r \in DOMAIN edit => edit[r] # Absent}
        |-> IF q \in DOMAIN edit THEN edit[q] ELSE tree[q]]

\* The commits strictly after `base` on the first-parent chain of c, oldest first.
RECURSIVE Since(_, _)
Since(base, c) ==
    IF c = base \/ c.parents = <<>> THEN <<>>
    ELSE Append(Since(base, c.parents[1]), c)

\* Who commits the k-th composite commit and how: the second one is a commit
\* authored by somebody else in another zone, its message indented.
MetaAt(k) ==
    IF k % 2 = 1
    THEN [message |-> <<"fix">>, env |-> ("TZ" :> "+0000"), who |-> "u1", now |-> 5 + k]
    ELSE [message |-> <<" ", "wip">>,
          env |-> ("TZ" :> "+0200") @@ ("GIT_AUTHOR_NAME" :> "ann")
                    @@ ("GIT_AUTHOR_EMAIL" :> "ann@example.com")
                    @@ ("GIT_AUTHOR_DATE" :> [epoch |-> 3, zone |-> "+0200"]),
          who |-> "u1", now |-> 5 + k]

\* The user edits files in the checkout and commits: `git commit`.
MonoCommit(edit) ==
    LET k == Len(Since(BaseCommit, head)) + 1
        m == MetaAt(k)
    IN  /\ pc = "idle"
        /\ k <= MaxCommits
        /\ nruns < MaxRuns
        /\ head' = CommitTree(Edited(head.tree, edit), <<head>>, m.message, m.env,
                              Person(m.who), m.now)
        /\ UNCHANGED <<refs, pc, run, derived, prevRip, lastRip, nruns>>
        /\ UNCHANGED <<stitchVars, initVars>>

\* The edits one commit may hold: up to MaxChanges paths, each really changed.
Edits(tree) ==
    UNION { {e \in [S -> UNION {Contents(p) : p \in S}] :
                \A p \in S : e[p] \in Contents(p) /\ e[p] # At(tree, p)}
            : S \in {T \in SUBSET Paths : Cardinality(T) \in 1..MaxChanges} }

-----------------------------------------------------------------------------
(* git-rip.                                                                *)

Marker == "git-stitch merge"

\* The commit that is checked out, whatever its message.
findBaseAnyCommit(c) == c

\* git log --grep=<marker> --format=%H -1: the most recent commit reachable
\* from HEAD whose message holds the marker.  The histories here are a first-
\* parent chain down to the stitched commit.
RECURSIVE findBaseMergeCommit(_)
findBaseMergeCommit(c) ==
    IF Marker \in Range(c.message) THEN c
    ELSE IF c.parents = <<>> THEN NoCommit
    ELSE findBaseMergeCommit(c.parents[1])

\* git show -s --format=%H%x00%B%x00%an%x00%ae%x00%at%x00%cn%x00%ce%x00%ct
getCommitInfo(c) ==
    [Hash |-> c,
     Message |-> TrimSpace(c.message),
     AuthorName |-> c.authorName,
     AuthorEmail |-> c.authorEmail,
     AuthorTimestamp |-> c.authorTime,
     CommitterName |-> c.committerName,
     CommitterEmail |-> c.committerEmail,
     CommitterTimestamp |-> c.committerTime]

\* git rev-list base..HEAD without --reverse: the newest commit first.
getCommitsSinceNewestFirst(base, h) ==
    LET hashes == Since(base, h)
    IN  [i \in 1..Len(hashes) |-> getCommitInfo(hashes[Len(hashes) + 1 - i])]

\* git rev-list --reverse base..HEAD, then getCommitInfo of each.
getCommitsSince(base, h) ==
    LET hashes == Since(base, h)
    IN  [i \in 1..Len(hashes) |-> getCommitInfo(hashes[i])]

\* The directories of the base commit's tree, sorted.
getRemotesFromBaseCommit(base) == SortStrings(TopDirs(base.tree))

\* The first parent of the base, whatever its tree.
getOriginalCommitFirstParent(base, remote) == base.parents[1]

\* The last parent of the base whose tree is the remote's directory in the
\* base; the first parent when none is.
getOriginalCommitLastMatch(base, remote) ==
    LET parents == base.parents
        match == {i \in 1..Len(parents) : parents[i].tree = SubTree(base.tree, remote)}
    IN  IF match # {}
        THEN parents[CHOOSE i \in match : \A j \in match : i >= j]
        ELSE parents[1]

\* The first parent of the base whose tree is the remote's directory in the
\* base; the first parent when none is.
getOriginalCommitForRemote(base, remote) ==
    LET parents == base.parents
        match == {i \in 1..Len(parents) : parents[i].tree = SubTree(base.tree, remote)}
    IN  IF match # {}
        THEN parents[CHOOSE i \in match : \A j \in match : i <= j]
        ELSE parents[1]

\* The remotes getOriginalCommitForRemote prints "No exact match found for
\* remote ..., using first parent ..." for: those without a matching parent,
\* and only when GIT_STITCH_VERBOSE is set to something.
FallbackMessages(base, remotes, osEnv) ==
    IF EnvOr(osEnv, "GIT_STITCH_VERBOSE", "") = "" THEN {}
    ELSE {r \in Range(remotes) :
             \A i \in 1..Len(base.parents) : base.parents[i].tree # SubTree(base.tree, r)}

\* The queries of the object store that may fail while main prepares the
\* loop: git show of the k-th commit after the base (<<"info", k>>), git
\* rev-parse of the tree of the i-th parent of the base (<<"tree", i>>), git
\* rev-parse of the base's directory of the j-th remote (<<"subtree", j>>).
Queries == {<<"info", 1>>, <<"info", 2>>, <<"tree", 1>>, <<"subtree", 1>>, <<"subtree", 2>>}

\* No query fails, or one does.
Failures == {{}} \cup {{q} : q \in Queries}

RECURSIVE InfoOfEach(_, _, _)
\* The loop of getCommitsSince over the hashes: a commit whose getCommitInfo
\* fails gets a warning and is passed over.
InfoOfEach(hashes, k, failing) ==
    IF k > Len(hashes) THEN <<>>
    ELSE (IF <<"info", k>> \in failing THEN <<>> ELSE <<getCommitInfo(hashes[k])>>)
         \o InfoOfEach(hashes, k + 1, failing)

\* getCommitsSince when the queries in `failing` fail.
getCommitsSinceWhen(failing, base, h) == InfoOfEach(Since(base, h), 1, failing)

\* getOriginalCommitForRemote when the queries in `failing` fail: a parent
\* whose tree, or for which the remote's directory, cannot be read is passed
\* over; the first parent when none is left that matches.
getOriginalCommitForRemoteWhen(failing, base, remotes, j) ==
    LET parents == base.parents
        match == {i \in 1..Len(parents) :
                     /\ <<"tree", i>> \notin failing
                     /\ <<"subtree", j>> \notin failing
                     /\ parents[i].tree = SubTree(base.tree, remotes[j])}
    IN  IF match # {}
        THEN parents[CHOOSE i \in match : \A k \in match : i <= k]
        ELSE parents[1]

\* The S_IFMT part of a mode: a change of it is a type change.
FileType(mode) == IF mode = "120000" THEN "link" ELSE "file"

\* The status letter git diff-tree --name-status gives a changed path.
StatusOf(old, new, p) ==
    IF p \notin DOMAIN old THEN "A"
    ELSE IF p \notin DOMAIN new THEN "D"
    ELSE IF FileType(old[p].mode) # FileType(new[p].mode) THEN "T"
    ELSE "M"

\* git diff-tree --no-commit-id --name-status -r <commit>: the changes against
\* the parent, in path order; nothing for a commit without exactly one parent.
getChangedFilesWithStatus(c) ==
    IF Len(c.parents) # 1 THEN <<>>
    ELSE
        LET old == c.parents[1].tree
            new == c.tree
            all == [i \in 1..Len(PathOrder) |->
                       [Status |-> StatusOf(old, new, PathOrder[i]), Path |-> PathOrder[i]]]
        IN  SelectSeq(all, LAMBDA ch : At(old, ch.Path) # At(new, ch.Path))

\* The changes under any directory, whichever remote is asked for.
FilesByRemoteAnyDirectory(changedFiles, remotes, remote) ==
    LET mine == SelectSeq(changedFiles,
                    LAMBDA ch : /\ Len(SplitN2(ch.Path)) = 2
                                /\ remote \in Range(remotes))
    IN  [i \in 1..Len(mine) |-> [Path |-> SplitN2(mine[i].Path)[2], Status |-> mine[i].Status]]

\* filesByRemote[remote]: the changes under the remote's directory, their
\* paths relative to it.
FilesByRemote(changedFiles, remotes, remote) ==
    LET mine == SelectSeq(changedFiles,
                    LAMBDA ch : /\ Len(SplitN2(ch.Path)) = 2
                                /\ SplitN2(ch.Path)[1] = remote
                                /\ remote \in Range(remotes))
    IN  [i \in 1..Len(mine) |-> [Path |-> SplitN2(mine[i].Path)[2], Status |-> mine[i].Status]]

\* The environment createCommitForRemoteSingleChange gives `git commit-tree`.
RipEnv(osEnv, commit) ==
    EnvAppend(osEnv,
        ("GIT_AUTHOR_NAME" :> commit.AuthorName)
        @@ ("GIT_AUTHOR_EMAIL" :> commit.AuthorEmail)
        @@ ("GIT_COMMITTER_NAME" :> commit.CommitterName)
        @@ ("GIT_COMMITTER_EMAIL" :> commit.CommitterEmail)
        @@ ("GIT_AUTHOR_DATE" :> BareEpoch(commit.AuthorTimestamp))
        @@ ("GIT_COMMITTER_DATE" :> BareEpoch(commit.CommitterTimestamp)))

\* git update-index --remove <path> in a scratch index: the entry goes when
\* the working tree has no such file; when it has one, the entry is refreshed
\* from that file (and a path the index lacks is refused).
UpdateIndexRemove(index, path, worktree) ==
    IF path \notin DOMAIN worktree THEN [ok |-> TRUE, index |-> Put(index, path, Absent)]
    ELSE IF path \in DOMAIN index THEN [ok |-> TRUE, index |-> Put(index, path, worktree[path])]
    ELSE [ok |-> FALSE, index |-> index]

\* The index after one change: the parent's tree with the change applied.
IndexAfter(commit, remote, change, parentCommit, worktree) ==
    LET index == parentCommit.tree
        monorepoPath == <<remote>> \o change.Path
    IN  IF change.Status = "D" THEN UpdateIndexRemove(index, change.Path, worktree)
        ELSE IF change.Status \in {"A", "M"}
        THEN IF monorepoPath \in DOMAIN commit.Hash.tree
             THEN [ok |-> TRUE, index |-> Put(index, change.Path, commit.Hash.tree[monorepoPath])]
             ELSE [ok |-> FALSE, index |-> index]
        ELSE [ok |-> TRUE, index |-> index]

\* One change replayed as a commit on top of parentCommit.
createCommitForRemoteSingleChange(commit, remote, change, parentCommit, worktree, inv) ==
    LET ix == IndexAfter(commit, remote, change, parentCommit, worktree)
    IN  [ok |-> ix.ok,
         commit |-> CommitTree(ix.index, <<parentCommit>>, commit.Message,
                               RipEnv(inv.env, commit), inv.ident, inv.now)]

\* The changes of one remote applied one by one, each as a commit on the one
\* before.  Returns the commits created, in order.
RECURSIVE createCommitForRemoteWithChanges(_, _, _, _, _, _)
createCommitForRemoteWithChanges(commit, remote, fileChanges, parentCommit, worktree, inv) ==
    IF fileChanges = <<>> THEN [ok |-> TRUE, created |-> <<>>]
    ELSE
        LET one == createCommitForRemoteSingleChange(commit, remote, Head(fileChanges),
                                                      parentCommit, worktree, inv)
        IN  IF ~one.ok THEN [ok |-> FALSE, created |-> <<>>]
            ELSE LET rest == createCommitForRemoteWithChanges(commit, remote,
                                 Tail(fileChanges), one.commit, worktree, inv)
                 IN  [ok |-> rest.ok, created |-> <<one.commit>> \o rest.created]

-----------------------------------------------------------------------------
(* git-rip: main, one action per stretch of it.                            *)

NoLocals == [none |-> TRUE]

Last(s) == s[Len(s)]

\* How git-rip is started: with a prefix, or with none and in another zone.
RipInvocations ==
    { [args |-> <<"p">>, env |-> ("TZ" :> "+0000")],
      [args |-> <<>>, env |-> ("TZ" :> "+0100")] }

\* user.name / user.email of the monorepo's configuration.
RipIdent == Person("u1")

\* The wall clock when run number n starts.
ClockAt(n) == 10 + n

\* main returns or exits: what the run leaves behind.
EndRun(exit, output, prefix, env, base, heads, before) ==
    /\ pc' = "idle"
    /\ run' = NoLocals
    /\ prevRip' = lastRip
    /\ lastRip' = [exit |-> exit, output |-> output, prefix |-> prefix, env |-> env,
                   head |-> head, base |-> base, heads |-> heads, refsBefore |-> before]

\* main up to the loop over the commits: the prefix, the base commit, the
\* commits since it, the remotes and the head each remote starts from.
RipStart(args, osEnv) ==
    LET now == ClockAt(nruns)
        prefix == IF Len(args) > 0 THEN args[1] ELSE "rip-" \o ToString(now)
        baseCommit == findBaseMergeCommit(head)
        commits == getCommitsSince(baseCommit, head)
        remotes == getRemotesFromBaseCommit(baseCommit)
    IN  /\ pc = "idle"
        /\ nruns < MaxRuns
        /\ nruns' = nruns + 1
        /\ derived' = <<>>
        /\ UNCHANGED <<head, refs>>
        /\ UNCHANGED <<stitchVars, initVars>>
        /\ IF baseCommit = NoCommit
           THEN EndRun(1, "error", prefix, osEnv, NoCommit, <<>>, refs)
           ELSE IF commits = <<>>
           THEN EndRun(0, "nothing", prefix, osEnv, baseCommit, <<>>, refs)
           ELSE IF remotes # <<>> /\ baseCommit.parents = <<>>
           THEN EndRun(1, "error", prefix, osEnv, baseCommit, <<>>, refs)
           ELSE /\ pc' = "commits"
                /\ run' = [prefix |-> prefix,
                           inv |-> [env |-> osEnv, ident |-> RipIdent, now |-> now],
                           baseCommit |-> baseCommit,
                           remotes |-> remotes,
                           commits |-> commits,
                           branchHeads |-> [r \in Range(remotes) |->
                                               getOriginalCommitForRemote(baseCommit, r)],
                           todo |-> remotes,
                           refsBefore |-> refs,
                           warnings |-> FallbackMessages(baseCommit, remotes, osEnv),
                           last |-> NoCommit]
                /\ UNCHANGED <<prevRip, lastRip>>

\* main up to the loop over the commits, when the queries in `failing` fail.
RipStartWhen(failing, args, osEnv) ==
    LET now == ClockAt(nruns)
        prefix == IF Len(args) > 0 THEN args[1] ELSE "rip-" \o ToString(now)
        baseCommit == findBaseMergeCommit(head)
        commits == getCommitsSinceWhen(failing, baseCommit, head)
        remotes == getRemotesFromBaseCommit(baseCommit)
    IN  /\ pc = "idle"
        /\ nruns < MaxRuns
        /\ nruns' = nruns + 1
        /\ derived' = <<>>
        /\ UNCHANGED <<head, refs>>
        /\ UNCHANGED <<stitchVars, initVars>>
        /\ IF baseCommit = NoCommit
           THEN EndRun(1, "error", prefix, osEnv, NoCommit, <<>>, refs)
           ELSE IF commits = <<>>
           THEN EndRun(0, "nothing", prefix, osEnv, baseCommit, <<>>, refs)
           ELSE IF remotes # <<>> /\ baseCommit.parents = <<>>
           THEN EndRun(1, "error", prefix, osEnv, baseCommit, <<>>, refs)
           ELSE /\ pc' = "commits"
                /\ run' = [prefix |-> prefix,
                           inv |-> [env |-> osEnv, ident |-> RipIdent, now |-> now],
                           baseCommit |-> baseCommit,
                           remotes |-> remotes,
                           commits |-> commits,
                           branchHeads |-> [r \in Range(remotes) |->
                                               getOriginalCommitForRemoteWhen(failing,
                                                   baseCommit, remotes,
                                                   CHOOSE j \in 1..Len(remotes) :
                                                       remotes[j] = r)],
                           failing |-> failing,
                           todo |-> remotes,
                           refsBefore |-> refs,
                           warnings |-> FallbackMessages(baseCommit, remotes, osEnv),
                           last |-> NoCommit]
                /\ UNCHANGED <<prevRip, lastRip>>

\* The commits created for one composite commit, remote by remote.
Replay(commit, remotes, branchHeads, worktree, inv) ==
    LET changedFiles == getChangedFilesWithStatus(commit.Hash)
    IN  [r \in Range(remotes) |->
            createCommitForRemoteWithChanges(commit, r,
                FilesByRemote(changedFiles, remotes, r), branchHeads[r], worktree, inv)]

RECURSIVE DerivedFrom(_, _, _)
\* The entries of `derived` for one composite commit, in the order of creation.
DerivedFrom(src, remotes, res) ==
    IF remotes = <<>> THEN <<>>
    ELSE [i \in 1..Len(res[Head(remotes)].created) |->
             [src |-> src, remote |-> Head(remotes), commit |-> res[Head(remotes)].created[i]]]
         \o DerivedFrom(src, Tail(remotes), res)

\* One turn of the loop over the commits.
RipCommit ==
    /\ pc = "commits"
    /\ run.commits # <<>>
    /\ LET commit == Head(run.commits)
           res == Replay(commit, run.remotes, run.branchHeads, head.tree, run.inv)
           newHeads == [r \in Range(run.remotes) |->
                           IF res[r].created = <<>> THEN run.branchHeads[r]
                           ELSE Last(res[r].created)]
       IN  IF \E r \in Range(run.remotes) : ~res[r].ok
           THEN /\ EndRun(1, "error", run.prefix, run.inv.env, run.baseCommit, <<>>,
                          run.refsBefore)
                /\ UNCHANGED derived
           ELSE /\ derived' = derived \o DerivedFrom(commit.Hash, run.remotes, res)
                /\ IF Tail(run.commits) = <<>> /\ run.remotes = <<>>
                   THEN EndRun(0, "branches", run.prefix, run.inv.env, run.baseCommit,
                               newHeads, run.refsBefore)
                   ELSE /\ pc' = IF Tail(run.commits) = <<>> THEN "branches" ELSE "commits"
                        /\ run' = [run EXCEPT !.commits = Tail(@),
                                              !.branchHeads = newHeads,
                                              !.last = [commit |-> commit.Hash,
                                                        before |-> run.branchHeads,
                                                        created |-> [r \in Range(run.remotes)
                                                                       |-> res[r].created]]]
                        /\ UNCHANGED <<prevRip, lastRip>>
    /\ UNCHANGED <<head, refs, nruns>>
    /\ UNCHANGED <<stitchVars, initVars>>

\* One turn of the loop that creates the branches: git branch <prefix>-<remote> <head>,
\* which refuses a name that exists.
RipBranch ==
    /\ pc = "branches"
    /\ run.todo # <<>>
    /\ LET remote == Head(run.todo)
           branchName == run.prefix \o "-" \o remote
       IN  IF branchName \in DOMAIN refs
           THEN /\ EndRun(1, "error", run.prefix, run.inv.env, run.baseCommit, <<>>,
                          run.refsBefore)
                /\ UNCHANGED refs
           ELSE /\ refs' = (branchName :> run.branchHeads[remote]) @@ refs
                /\ IF Tail(run.todo) = <<>>
                   THEN EndRun(0, "branches", run.prefix, run.inv.env, run.baseCommit,
                               run.branchHeads, run.refsBefore)
                   ELSE /\ pc' = "branches"
                        /\ run' = [run EXCEPT !.todo = Tail(@)]
                        /\ UNCHANGED <<prevRip, lastRip>>
    /\ UNCHANGED <<head, derived, nruns>>
    /\ UNCHANGED <<stitchVars, initVars>>

\* A git command of the current turn exits with an error (a lock that is held,
\* a full disk): main prints the error and exits with status 1.
RipFail ==
    /\ pc \in {"commits", "branches"}
    /\ EndRun(1, "error", run.prefix, run.inv.env, run.baseCommit, <<>>, run.refsBefore)
    /\ UNCHANGED <<head, refs, derived, nruns>>
    /\ UNCHANGED <<stitchVars, initVars>>

-----------------------------------------------------------------------------
(* git-stitch rebase and git-stitch explode: handleRebase, handleExplode.  *)

\* The repository the two subcommands run in.
MonoRepo == "r1"

\* The remotes of its configuration, each on its default branch.
MonoSpecs ==
    [i \in 1..2 |-> LET r == <<"a", "b">>[i]
                    IN  [Remote |-> r, Branch |-> RemoteHead[r], Subdir |-> ".", Dir |-> r]]

\* Its base: the commit of `init a b` over the tracking refs the clone has.
MonoBase ==
    createDeterministicCommit(
        MkTree([k \in {"a", "b"} |-> InitTracking[MonoRepo][<<k, RemoteHead[k]>>].tree]),
        InitMessage,
        [i \in 1..2 |-> InitTracking[MonoRepo][<<MonoSpecs[i].Remote, MonoSpecs[i].Branch>>]],
        ("TZ" :> "+0000"), RepoIdent[MonoRepo], 5)

\* The keys loadRemoteSpecs, handleRebase and handleExplode read, set for
\* these remotes and this base.
ConfigRead(remotes, commitHash) ==
    LET perRemote(i) ==
            ("remote." \o remotes[i].Remote \o ".stitch-branch" :> remotes[i].Branch)
            @@ ("remote." \o remotes[i].Remote \o ".stitch-subdir" :> remotes[i].Subdir)
            @@ ("remote." \o remotes[i].Remote \o ".stitch-dir" :> remotes[i].Dir)
        keys == UNION {DOMAIN perRemote(i) : i \in 1..Len(remotes)}
    IN  [k \in keys |-> LET i == CHOOSE j \in 1..Len(remotes) : k \in DOMAIN perRemote(j)
                        IN  perRemote(i)[k]]
        @@ ("stitch.remotes" :> [i \in 1..Len(remotes) |-> remotes[i].Remote])
        @@ ("stitch.init-commit" :> commitHash)

RECURSIVE RevList(_, _)
\* git rev-list --reverse base..h: the commits of h's history that base does
\* not reach, oldest first.  They form a first-parent chain here.
RevList(base, h) ==
    IF IsAncestor(h, base) THEN <<>>
    ELSE (IF h.parents = <<>> THEN <<>> ELSE RevList(base, h.parents[1])) \o <<h>>

\* The command lines of rebase: none, a directory and a branch, a directory
\* alone, a directory and a branch the remote does not have.
RebaseArgs == {<<>>, <<"a", "main">>, <<"b", "main">>, <<"a">>, <<"b", "nope">>}

RebaseMessage == <<"Monorepo rebase">>

\* overrides: the ref given last for each directory.
Overrides(args) ==
    [d \in {args[2 * i - 1] : i \in 1..(Len(args) \div 2)} |->
        args[2 * (CHOOSE i \in 1..(Len(args) \div 2) :
                     /\ args[2 * i - 1] = d
                     /\ \A j \in 1..(Len(args) \div 2) : args[2 * j - 1] = d => j <= i)]]

RECURSIVE Overridden(_, _)
\* remotesToRebase when overrides are given: the remotes whose directory has
\* one, on the branch it names.
Overridden(remotes, overrides) ==
    IF remotes = <<>> THEN <<>>
    ELSE (IF Head(remotes).Dir \in DOMAIN overrides
          THEN <<[Head(remotes) EXCEPT !.Branch = overrides[Head(remotes).Dir]]>>
          ELSE <<>>)
         \o Overridden(Tail(remotes), overrides)

\* The tree of the new base: the entries of HEAD's tree but for the
\* directories that are rebased, and each of these with the tree of its ref.
RebaseTree(headTree, remotesToRebase, trk) ==
    LET updatedDirs == {remotesToRebase[i].Dir : i \in 1..Len(remotesToRebase)}
        kept == {q \in DOMAIN headTree : q[1] \notin updatedDirs}
        treeOf(i) ==
            LET c == trk[<<remotesToRebase[i].Remote, remotesToRebase[i].Branch>>]
            IN  IF remotesToRebase[i].Subdir = "." THEN c.tree
                ELSE SubTree(c.tree, remotesToRebase[i].Subdir)
        new == MkTree([d \in updatedDirs |->
                          treeOf(CHOOSE i \in 1..Len(remotesToRebase) :
                                     /\ remotesToRebase[i].Dir = d
                                     /\ \A j \in 1..Len(remotesToRebase) :
                                            remotesToRebase[j].Dir = d => j <= i)])
    IN  [q \in kept \cup DOMAIN new |-> IF q \in DOMAIN new THEN new[q] ELSE headTree[q]]

\* The parents of the new base: the previous base, then the rebased refs.
RebaseParentsWithoutBase(prevBase, commits) == commits

RebaseParents(prevBase, commits) == <<prevBase>> \o commits

\* One commit replayed on tip by git rebase: each path merged three ways
\* between the commit's parent, the commit and tip.  A file is one blob here:
\* two different changes of one path conflict.
Pick(tip, c) ==
    LET old == c.parents[1].tree
        paths == DOMAIN old \cup DOMAIN c.tree \cup DOMAIN tip.tree
        clash == {q \in paths : /\ At(c.tree, q) # At(old, q)
                                /\ At(tip.tree, q) # At(old, q)
                                /\ At(tip.tree, q) # At(c.tree, q)}
        merged == [q \in {r \in paths :
                              (IF At(c.tree, r) = At(old, r) THEN At(tip.tree, r)
                               ELSE At(c.tree, r)) # Absent}
                      |-> IF At(c.tree, q) = At(old, q) THEN tip.tree[q] ELSE c.tree[q]]
    IN  [ok |-> clash = {}, tree |-> merged]

RECURSIVE Replayed(_, _, _, _, _)
\* git rebase --onto: the commits replayed one by one on tip, a commit that
\* changes nothing there dropped; it stops at the first conflict, HEAD on
\* what it has replayed so far.
Replayed(commits, tip, env, ident, now) ==
    IF commits = <<>> THEN [ok |-> TRUE, head |-> tip]
    ELSE LET c == Head(commits)
             m == Pick(tip, c)
             new == [c EXCEPT !.tree = m.tree,
                              !.parents = <<tip>>,
                              !.committerName = EnvOr(env, "GIT_COMMITTER_NAME", ident.name),
                              !.committerEmail = EnvOr(env, "GIT_COMMITTER_EMAIL", ident.email),
                              !.committerTime = now,
                              !.committerZone = EnvOr(env, "TZ", "+0000")]
         IN  IF ~m.ok THEN [ok |-> FALSE, head |-> tip]
             ELSE Replayed(Tail(commits), IF m.tree = tip.tree THEN tip ELSE new,
                           env, ident, now)

\* How the subcommands are started, the clock advancing with every step.
MonoInv == [env |-> ("TZ" :> "+0000"), now |-> 20 + ninit]

\* The steps of a behaviour: commands and commits.
MaxSteps == 3

\* What a subcommand leaves: its record, and the one before.
MonoEnd(record) ==
    /\ ninit < MaxSteps
    /\ ninit' = ninit + 1
    /\ prevInit' = lastInit
    /\ lastInit' = record
    /\ UNCHANGED <<prevStitch, lastStitch, nstitch>>
    /\ UNCHANGED <<refs, pc, run, derived, prevRip, lastRip, nruns>>

\* One run of `git-stitch rebase args...`.
RebaseRun(args) ==
    LET cfg == config[MonoRepo]
        loaded == loadRemoteSpecs(cfg)
        failed(trk) ==
            /\ MonoEnd([cmd |-> "rebase", args |-> args, exit |-> 1, headBefore |-> head,
                        configBefore |-> cfg])
            /\ tracking' = [tracking EXCEPT ![MonoRepo] = trk]
            /\ UNCHANGED <<config, head>>
    IN  IF Len(args) % 2 # 0 \/ ~loaded.ok \/ "stitch.init-commit" \notin DOMAIN cfg
        THEN failed(tracking[MonoRepo])
        ELSE
            LET overrides == Overrides(args)
                prevBase == cfg["stitch.init-commit"]
                remotesToRebase == IF DOMAIN overrides # {}
                                   THEN Overridden(loaded.specs, overrides)
                                   ELSE loaded.specs
                trk == FetchAll(tracking[MonoRepo],
                                [i \in 1..Len(remotesToRebase) |-> remotesToRebase[i].Remote])
                currentHead == head
                ref(i) == <<remotesToRebase[i].Remote, remotesToRebase[i].Branch>>
            IN  IF \E i \in 1..Len(remotesToRebase) : ref(i) \notin DOMAIN trk
                THEN failed(trk)
                ELSE
                    LET commits == [i \in 1..Len(remotesToRebase) |-> trk[ref(i)]]
                        parentCommits == RebaseParents(prevBase, commits)
                        treeHash == RebaseTree(currentHead.tree, remotesToRebase, trk)
                        newBaseCommit == createDeterministicCommit(treeHash, RebaseMessage,
                                             parentCommits, MonoInv.env, RepoIdent[MonoRepo],
                                             MonoInv.now)
                        rebased == Replayed(RevList(prevBase, currentHead), newBaseCommit,
                                            MonoInv.env, RepoIdent[MonoRepo], MonoInv.now)
                    IN  /\ tracking' = [tracking EXCEPT ![MonoRepo] = trk]
                        /\ config' = [config EXCEPT ![MonoRepo] =
                                          ("stitch.init-commit" :> newBaseCommit) @@ @]
                        /\ head' = IF currentHead = prevBase THEN head ELSE rebased.head
                        /\ MonoEnd([cmd |-> "rebase", args |-> args,
                                    exit |-> IF currentHead = prevBase \/ rebased.ok
                                             THEN 0 ELSE 1,
                                    headBefore |-> currentHead,
                                    configBefore |-> cfg,
                                    prevBase |-> prevBase,
                                    rebased |-> remotesToRebase,
                                    newBase |-> newBaseCommit])

\* The environment explodeCommitToRemote gives `git commit-tree`.
ExplodeEnv(osEnv, commit) ==
    LET origDate == getCommitDate(commit)
    IN  EnvAppend(osEnv,
            ("GIT_AUTHOR_NAME" :> commit.authorName)
            @@ ("GIT_AUTHOR_EMAIL" :> commit.authorEmail)
            @@ ("GIT_AUTHOR_DATE" :> origDate)
            @@ ("GIT_COMMITTER_NAME" :> "git-stitch")
            @@ ("GIT_COMMITTER_EMAIL" :> "git-stitch@deterministic")
            @@ ("GIT_COMMITTER_DATE" :> origDate))

\* One commit and one remote: a commit on the remote-tracking branch when the
\* commit changes the remote's directory.  Returns the refs and the commit
\* created, if any.
explodeCommitToRemote(commit, spec, trk, inv, ident) ==
    LET parentHash == commit.parents[1]
        remoteBranch == <<spec.Remote, spec.Branch>>
        treeHash == SubTree(commit.tree, spec.Dir)
    IN  IF SubTree(commit.tree, spec.Dir) = SubTree(parentHash.tree, spec.Dir)
        THEN [ok |-> TRUE, trk |-> trk, created |-> <<>>]
        ELSE IF DOMAIN treeHash = {} \/ remoteBranch \notin DOMAIN trk
        THEN [ok |-> FALSE, trk |-> trk, created |-> <<>>]
        ELSE LET remoteHead == trk[remoteBranch]
                 newCommit == CommitTree(treeHash, <<remoteHead>>, TrimSpace(commit.message),
                                         ExplodeEnv(inv.env, commit), ident, inv.now)
             IN  [ok |-> TRUE,
                  trk |-> [r \in DOMAIN trk |-> IF r = remoteBranch THEN newCommit ELSE trk[r]],
                  created |-> <<[src |-> commit, remote |-> spec.Remote, before |-> remoteHead,
                                commit |-> newCommit]>>]

RECURSIVE ExplodeLoop(_, _, _, _, _, _)
\* The two loops of handleExplode, from commit number k and remote number j on.
ExplodeLoop(commits, remotes, k, j, trk, inv) ==
    IF k > Len(commits) THEN [ok |-> TRUE, trk |-> trk, created |-> <<>>]
    ELSE IF j > Len(remotes) THEN ExplodeLoop(commits, remotes, k + 1, 1, trk, inv)
    ELSE LET one == explodeCommitToRemote(commits[k], remotes[j], trk, inv,
                                          RepoIdent[MonoRepo])
         IN  IF ~one.ok THEN [ok |-> FALSE, trk |-> trk, created |-> <<>>]
             ELSE LET rest == ExplodeLoop(commits, remotes, k, j + 1, one.trk, inv)
                  IN  [ok |-> rest.ok, trk |-> rest.trk,
                       created |-> one.created \o rest.created]

\* One run of `git-stitch explode`.
ExplodeRun ==
    LET cfg == config[MonoRepo]
        loaded == loadRemoteSpecs(cfg)
    IN  IF ~loaded.ok \/ "stitch.init-commit" \notin DOMAIN cfg
        THEN /\ MonoEnd([cmd |-> "explode", exit |-> 1, head |-> head,
                         trackingBefore |-> tracking[MonoRepo], created |-> <<>>])
             /\ UNCHANGED <<tracking, config, head>>
        ELSE LET initCommit == cfg["stitch.init-commit"]
                 commits == RevList(initCommit, head)
                 res == ExplodeLoop(commits, loaded.specs, 1, 1, tracking[MonoRepo], MonoInv)
             IN  /\ tracking' = [tracking EXCEPT ![MonoRepo] = res.trk]
                 /\ MonoEnd([cmd |-> "explode", exit |-> IF res.ok THEN 0 ELSE 1,
                             head |-> head, base |-> initCommit,
                             trackingBefore |-> tracking[MonoRepo],
                             created |-> res.created])
                 /\ UNCHANGED <<config, head>>

-----------------------------------------------------------------------------
(* The specifications.                                                     *)

Init ==
    /\ tracking = InitTracking
    /\ prevStitch = NoRun
    /\ lastStitch = NoRun
    /\ head = BaseCommit
    /\ refs = <<>>
    /\ pc = "idle"
    /\ run = NoLocals
    /\ derived = <<>>
    /\ prevRip = NoRun
    /\ lastRip = NoRun
    /\ nruns = 0
    /\ nstitch = 0
    /\ config = [r \in Repos |-> <<>>]
    /\ prevInit = NoRun
    /\ lastInit = NoRun
    /\ ninit = 0

\* git-rip in the monorepo, the user committing between the runs.
Next ==
    \/ \E edit \in Edits(head.tree) : MonoCommit(edit)
    \/ \E i \in RipInvocations : RipStart(i.args, i.env)
    \/ RipCommit
    \/ RipBranch
    \/ RipFail

Spec == Init /\ [][Next]_vars

\* The histories git-rip may find checked out: a root and up to MaxCommits
\* commits on it.  The roots: the stitched commit; a commit nobody stitched;
\* a commit stitched from two branches with the same tree; the stitched
\* commit amended after an edit of b/f, so that no parent has b's tree.
PlainRoot == UserCommit(BaseCommit.tree, <<>>, <<"import">>, "u1", 4)

TwinBase ==
    StitchCommit(("a" :> CA2) @@ ("b" :> CB1), 3, ("TZ" :> "+0000"), RepoIdent["r1"], 4)

AmendedBase ==
    CommitTree(Put(BaseCommit.tree, <<"b", "f">>, F1), BaseCommit.parents, StitchMessage,
               StitchEnv(("TZ" :> "+0000"), 2), RepoIdent["r1"], 5)

Roots == {BaseCommit, PlainRoot, TwinBase, AmendedBase}

\* The messages of the commits on a root: plain, one that mentions the marker
\* and one that starts with it.
HistMessages == {<<"fix">>, <<"Revert ", Marker>>, <<Marker, " again">>}

\* The k-th commit on a root changes a/f (k odd) or b/f (k even).
HistCommit(parent, message, k) ==
    LET path == IF k % 2 = 1 THEN <<"a", "f">> ELSE <<"b", "f">>
        entry == IF At(parent.tree, path) = F1 THEN F2 ELSE F1
    IN  CommitTree(Put(parent.tree, path, entry), <<parent>>, message,
                   ("TZ" :> "+0000"), RipIdent, 5 + k)

RECURSIVE HistoriesOf(_)
\* The histories of exactly n commits on a root.
HistoriesOf(n) ==
    IF n = 0 THEN Roots
    ELSE {HistCommit(c, m, n) : c \in HistoriesOf(n - 1), m \in HistMessages}

Histories == UNION {HistoriesOf(n) : n \in 0..MaxCommits}

\* How git-rip is started on them: plainly, or with verbose output.
HistInvocations ==
    { [args |-> <<"p">>, env |-> ("TZ" :> "+0000")],
      [args |-> <<>>, env |-> ("TZ" :> "+0000") @@ ("GIT_STITCH_VERBOSE" :> "1")] }

InitHist ==
    /\ tracking = InitTracking
    /\ prevStitch = NoRun
    /\ lastStitch = NoRun
    /\ head \in Histories
    /\ refs = <<>>
    /\ pc = "idle"
    /\ run = NoLocals
    /\ derived = <<>>
    /\ prevRip = NoRun
    /\ lastRip = NoRun
    /\ nruns = 0
    /\ nstitch = 0
    /\ config = [r \in Repos |-> <<>>]
    /\ prevInit = NoRun
    /\ lastInit = NoRun
    /\ ninit = 0

\* git-rip run on whatever history is checked out.
NextHist ==
    \/ \E i \in HistInvocations : RipStart(i.args, i.env)
    \/ RipCommit
    \/ RipBranch
    \/ RipFail

SpecHist == InitHist /\ [][NextHist]_vars

\* git-rip on the histories, with a query of the object store that fails.
NextFail ==
    \/ \E failing \in Failures, i \in HistInvocations : RipStartWhen(failing, i.args, i.env)
    \/ RipCommit
    \/ RipBranch
    \/ RipFail

SpecFail == InitHist /\ [][NextFail]_vars

\* The hours and the zones the parents of a composite commit may be dated with.
MaxHour == 4
Zones == {"+0000", "+0100", "+0900"}

\* A commit somebody made at hour t by the clock of zone z.
DatedCommit(t, z) ==
    CommitTree((<<"f">> :> F1), <<>>, <<"work">>, ("TZ" :> z), Person("ann"), t)

\* The parent lists createDeterministicCommit is called with.
DatedParents ==
    SeqsUpTo({DatedCommit(t, z) : t \in 1..MaxHour, z \in Zones}, MaxRefs) \ {<<>>}

\* createDeterministicCommit applied to the parents drawn at the start.
DeterministicCommitRun(inv) ==
    /\ lastInit.exit = -1
    /\ lastInit' = [exit |-> 0, parents |-> lastInit.parents,
                    commit |-> createDeterministicCommit(lastInit.parents[1].tree,
                                   InitMessage, lastInit.parents, inv.env,
                                   RepoIdent["r1"], inv.now)]
    /\ UNCHANGED <<config, prevInit, ninit>>
    /\ UNCHANGED <<stitchVars, ripVars>>

InitDate ==
    /\ tracking = InitTracking
    /\ prevStitch = NoRun
    /\ lastStitch = NoRun
    /\ head = BaseCommit
    /\ refs = <<>>
    /\ pc = "idle"
    /\ run = NoLocals
    /\ derived = <<>>
    /\ prevRip = NoRun
    /\ lastRip = NoRun
    /\ nruns = 0
    /\ nstitch = 0
    /\ config = [r \in Repos |-> <<>>]
    /\ prevInit = NoRun
    /\ lastInit \in {[exit |-> -1, parents |-> ps] : ps \in DatedParents}
    /\ ninit = 0

NextDate == \E inv \in Invocations : DeterministicCommitRun(inv)

SpecDate == InitDate /\ [][NextDate]_vars

\* The user changes one path in the checkout of the monorepo and commits,
\* every other commit with an indented message and another author.
MonoWork(edit) ==
    LET m == MetaAt(ninit + 1)
    IN  /\ ninit < MaxSteps
        /\ ninit' = ninit + 1
        /\ Cardinality(DOMAIN edit) = 1
        /\ head' = CommitTree(Edited(head.tree, edit), <<head>>, m.message, m.env,
                              Person(m.who), m.now)
        /\ UNCHANGED <<tracking, config, prevInit, lastInit>>
        /\ UNCHANGED <<prevStitch, lastStitch, nstitch>>
        /\ UNCHANGED <<refs, pc, run, derived, prevRip, lastRip, nruns>>

\* The monorepo after init: its base checked out, its configuration as the
\* subcommands read it, or as handleInit writes it.
InitMono ==
    /\ tracking = InitTracking
    /\ prevStitch = NoRun
    /\ lastStitch = NoRun
    /\ head = MonoBase
    /\ refs = <<>>
    /\ pc = "idle"
    /\ run = NoLocals
    /\ derived = <<>>
    /\ prevRip = NoRun
    /\ lastRip = NoRun
    /\ nruns = 0
    /\ nstitch = 0
    /\ config \in {[r \in Repos |-> IF r = MonoRepo THEN c ELSE <<>>] :
                       c \in {ConfigRead(MonoSpecs, MonoBase),
                              ConfigWritten(MonoSpecs, MonoBase)}}
    /\ prevInit = NoRun
    /\ lastInit = NoRun
    /\ ninit = 0

\* rebase and explode in the monorepo, the user committing between the runs.
NextMono ==
    \/ \E edit \in Edits(head.tree) : MonoWork(edit)
    \/ \E args \in RebaseArgs : RebaseRun(args)
    \/ ExplodeRun

SpecMono == InitMono /\ [][NextMono]_vars

\* git-stitch init run again and again in two clones.
NextInit ==
    \E repo \in Repos, args \in InitArgs, inv \in Invocations : InitRun(repo, args, inv)

SpecInit == Init /\ [][NextInit]_vars

\* git-stitch run again and again in two clones.
NextStitch ==
    \E repo \in Repos, noFetch \in BOOLEAN, args \in SeqsUpTo(RefArgs, MaxRefs),
       inv \in Invocations :
        StitchRun(repo, noFetch, args, inv)

SpecStitch == Init /\ [][NextStitch]_vars

-----------------------------------------------------------------------------
(* What the claims speak of.                                               *)

\* git-stitch ran twice and made a commit both times.
StitchedTwice == prevStitch.exit = 0 /\ lastStitch.exit = 0

\* git-rip has just processed a composite commit of the window.
Processed == pc # "idle" /\ run.last # NoCommit

\* Composite commit c changes a path under directory k.
Changes(c, k) == SubTree(c.tree, k) # SubTree(c.parents[1].tree, k)

\* The components of the run in progress.
Components == Range(run.remotes)

\* The run that ended last made it to the end, and so did the one before.
RanTwice ==
    /\ pc = "idle"
    /\ prevRip.exit = 0 /\ prevRip.output = "branches"
    /\ lastRip.exit = 0
    /\ prevRip.head = lastRip.head

-----------------------------------------------------------------------------
(* C1 *)

\* C1: two runs of git-stitch -no-fetch over the same set of refs resolving
\* to the same commits produce the same composite commit, whatever the
\* repository, the identity and the clock (as stated).
C1_SameRefsSameCommit ==
    (/\ StitchedTwice
     /\ prevStitch.noFetch /\ lastStitch.noFetch
     /\ prevStitch.resolved = lastStitch.resolved)
        => prevStitch.commit = lastStitch.commit

-----------------------------------------------------------------------------
(* C2 *)

\* C2: once git-rip has processed composite commit C, the tree of the head of
\* every component K that C changes is the subtree of C at K (as stated).
C2_TreeExact ==
    Processed =>
        \A k \in Components :
            Changes(run.last.commit, k)
                => run.branchHeads[k].tree = SubTree(run.last.commit.tree, k)

-----------------------------------------------------------------------------
(* C3 *)

\* C3: for a processed composite commit C and every component K it changes,
\* K gains exactly one commit, whose single parent is K's head before C (as
\* stated).
C3_OneCommitPerComponent ==
    Processed =>
        \A k \in Components :
            Changes(run.last.commit, k)
                => /\ Len(run.last.created[k]) = 1
                   /\ run.branchHeads[k].parents = <<run.last.before[k]>>

-----------------------------------------------------------------------------
(* C4 *)

\* The composite commit the loop turns to next changes no component.
NextTouchesNone ==
    /\ pc = "commits"
    /\ run.commits # <<>>
    /\ \A k \in Components : ~Changes(Head(run.commits).Hash, k)

\* C4: a processed composite commit that changes no path under K leaves K's
\* head as it was and creates no commit for K; a commit that changes no
\* component at all creates no commit and is no error.
C4_UntouchedUnchanged ==
    /\ Processed =>
          \A k \in Components :
              ~Changes(run.last.commit, k)
                  => /\ run.branchHeads[k] = run.last.before[k]
                     /\ run.last.created[k] = <<>>
    /\ NextTouchesNone =>
          LET res == Replay(Head(run.commits), run.remotes, run.branchHeads,
                            head.tree, run.inv)
          IN  \A k \in Components : res[k].ok /\ res[k].created = <<>>

\* A commit that changed only the top-level file and the file of a directory
\* that is no component has been processed, and nothing was created.
C4_Witness ==
    /\ Processed
    /\ At(run.last.commit.tree, <<"f">>) # At(run.last.commit.parents[1].tree, <<"f">>)
    /\ At(run.last.commit.tree, <<"x", "f">>)
          # At(run.last.commit.parents[1].tree, <<"x", "f">>)
    /\ \A k \in Components : ~Changes(run.last.commit, k) /\ run.last.created[k] = <<>>

-----------------------------------------------------------------------------
(* C5 *)

\* C5: every commit git-rip creates for composite commit C carries C's
\* message, C's author name, email and timestamp and C's committer name,
\* email and timestamp (as stated).
C5_SameMessageAndPeople ==
    \A i \in 1..Len(derived) :
        LET c == derived[i].src
            d == derived[i].commit
        IN  /\ d.message = c.message
            /\ d.authorName = c.authorName
            /\ d.authorEmail = c.authorEmail
            /\ d.authorTime = c.authorTime
            /\ d.committerName = c.committerName
            /\ d.committerEmail = c.committerEmail
            /\ d.committerTime = c.committerTime

-----------------------------------------------------------------------------
(* C6 *)

\* C6: when composite commit C1 precedes C2 in the window and both have a
\* commit derived for component K, the one derived from C1 is an ancestor of
\* the one derived from C2.
C6_OrderKept ==
    \A i, j \in 1..Len(derived) :
        (/\ derived[i].remote = derived[j].remote
         /\ derived[i].src # derived[j].src
         /\ IsAncestor(derived[i].src, derived[j].src))
            => /\ derived[i].commit # derived[j].commit
               /\ IsAncestor(derived[i].commit, derived[j].commit)

\* Two composite commits have each had a commit derived for one component.
C6_Witness ==
    \E i, j \in 1..Len(derived) :
        /\ derived[i].remote = derived[j].remote
        /\ derived[i].src # derived[j].src
        /\ IsAncestor(derived[i].src, derived[j].src)
        /\ IsAncestor(derived[i].commit, derived[j].commit)

-----------------------------------------------------------------------------
(* C7 *)

\* C7: git-rip run twice on the same repository state, no composite commit in
\* between: the second run computes for every component the head the first
\* run computed (as stated).
C7_SameHeadsAgain ==
    (RanTwice /\ lastRip.output = "branches") => lastRip.heads = prevRip.heads

-----------------------------------------------------------------------------
(* C8 *)

\* C8: after a successful run, a second run with no composite commit in
\* between reports that there is nothing to process and creates no branch
\* (as stated).
C8_NothingToProcess ==
    RanTwice => lastRip.output = "nothing" /\ refs = lastRip.refsBefore

-----------------------------------------------------------------------------
(* C9 *)

\* C9: when a run of git-rip fails, the refs are exactly as before the run
\* (as stated).
C9_FailureLeavesRefs ==
    (pc = "idle" /\ lastRip.exit = 1) => refs = lastRip.refsBefore

-----------------------------------------------------------------------------
(* C10 *)

\* The commit the base was stitched from for component k.
OriginalHead(base, k) ==
    CHOOSE c \in Range(base.parents) : c.tree = SubTree(base.tree, k)

\* The branches of the last run are there, each at the head of its component.
BranchesPublished ==
    \A k \in TopDirs(lastRip.base.tree) :
        LET name == lastRip.prefix \o "-" \o k
        IN  /\ name \in DOMAIN refs
            /\ k \in DOMAIN lastRip.heads
            /\ refs[name] = lastRip.heads[k]
            /\ (\A i \in 1..Len(derived) : derived[i].remote # k)
                   => refs[name] = OriginalHead(lastRip.base, k)

\* C10 as stated: after a run that exits successfully, every component has
\* its branch at its final head, also when the processed range is empty.
C10_AlwaysBranches ==
    (pc = "idle" /\ lastRip.exit = 0) => BranchesPublished

\* C10: after a run that exits successfully and had commits to process, every
\* component has its branch <prefix>-<component> at its final head, the
\* original head when no change was attributed to the component.
C10_BranchesWhenProcessed ==
    (pc = "idle" /\ lastRip.exit = 0 /\ lastRip.output = "branches") => BranchesPublished

\* A run ended successfully with a component that no commit changed.
C10_Witness ==
    /\ pc = "idle" /\ lastRip.exit = 0 /\ lastRip.output = "branches"
    /\ \E k \in TopDirs(lastRip.base.tree) : \A i \in 1..Len(derived) : derived[i].remote # k
    /\ derived # <<>>
    /\ BranchesPublished

-----------------------------------------------------------------------------
(* C11 *)

\* The message of c is the marker or starts with it.
BeginsWithMarker(c) == c.message # <<>> /\ c.message[1] = Marker

RECURSIVE MostRecentMarked(_)
\* The most recent commit, from c back, whose message begins with the marker.
MostRecentMarked(c) ==
    IF BeginsWithMarker(c) THEN c
    ELSE IF c.parents = <<>> THEN NoCommit
    ELSE MostRecentMarked(c.parents[1])

\* C11: the base git-rip works from is the most recent commit reachable from
\* HEAD whose message is the marker or begins with it; a commit that mentions
\* the marker elsewhere in its message is never the base (as stated).
C11_BaseBeginsWithMarker ==
    /\ pc # "idle" => run.baseCommit = MostRecentMarked(head)
    /\ (pc = "idle" /\ lastRip.exit # -1) => lastRip.base = MostRecentMarked(lastRip.head)

-----------------------------------------------------------------------------
(* C12 *)

RECURSIVE Ancestors(_)
\* c and every commit reachable from it.
Ancestors(c) == {c} \cup UNION {Ancestors(c.parents[i]) : i \in 1..Len(c.parents)}

\* No commit reachable from c has the marker in its message.
NoMarker(c) == \A d \in Ancestors(c) : Marker \notin Range(d.message)

-----------------------------------------------------------------------------
(* C13 *)

\* git-rip has resolved the head every component starts from, and no more.
HeadsResolved == pc = "commits" /\ run.last = NoCommit

\* The positions of the parents of b whose root tree is b's subtree at k.
Matching(b, k) == {i \in 1..Len(b.parents) : b.parents[i].tree = SubTree(b.tree, k)}

\* C13: when some parent of the base has a root tree equal to the base's
\* subtree at K, K starts from the first such parent in the recorded order
\* of the parents, which makes the answer a function of the base and K.
C13_FirstMatchingParent ==
    HeadsResolved =>
        \A k \in Components :
            Matching(run.baseCommit, k) # {}
                => \E i \in Matching(run.baseCommit, k) :
                      /\ \A j \in Matching(run.baseCommit, k) : i <= j
                      /\ run.branchHeads[k] = run.baseCommit.parents[i]

\* The heads are resolved against a base two of whose parents have b's tree.
C13_Witness ==
    /\ HeadsResolved
    /\ Cardinality(Matching(run.baseCommit, "b")) = 2
    /\ run.branchHeads["b"] = run.baseCommit.parents[1]
    /\ run.baseCommit.parents[1] # run.baseCommit.parents[2]

-----------------------------------------------------------------------------
(* C14 *)

\* C14: when no parent of the base has component K's tree, K starts from the
\* parent at K's own position: the i-th component from the i-th parent (as
\* stated).
C14_FallbackPositional ==
    HeadsResolved =>
        \A i \in 1..Len(run.remotes) :
            (Matching(run.baseCommit, run.remotes[i]) = {} /\ i <= Len(run.baseCommit.parents))
                => run.branchHeads[run.remotes[i]] = run.baseCommit.parents[i]

-----------------------------------------------------------------------------
(* C15 *)

\* C15: whenever a component's starting head comes from the fallback, the
\* run goes on and a message that names the fallback is printed, verbose
\* output or not (as stated).
C15_FallbackWarned ==
    pc # "idle" =>
        \A k \in Components :
            Matching(run.baseCommit, k) = {} => k \in run.warnings

-----------------------------------------------------------------------------
(* C17 *)

\* The largest number of a non-empty set.
Largest(S) == CHOOSE x \in S : \A y \in S : y <= x

\* C17: the composite commit of git-stitch has author and committer
\* timestamps equal to the largest commit timestamp of its parents, and the
\* fixed git-stitch identity as author and committer (as stated).
C17_MaxTimestampFixedIdentity ==
    lastStitch.exit = 0 =>
        LET c == lastStitch.commit
            latest == Largest({c.parents[i].committerTime : i \in 1..Len(c.parents)})
        IN  /\ c.authorTime = latest
            /\ c.committerTime = latest
            /\ c.authorName = "git-stitch" /\ c.authorEmail = "git-stitch@localhost"
            /\ c.committerName = "git-stitch" /\ c.committerEmail = "git-stitch@localhost"

-----------------------------------------------------------------------------
(* C18 *)

\* C18: the composite commit of git-stitch has exactly one parent and one
\* top-level directory for every ref of the command line: the directory is
\* named by the ref's remote and holds the tree of the commit the ref
\* resolves to, and there is no other entry (as stated).
C18_OneParentOneDirectoryPerRef ==
    lastStitch.exit = 0 =>
        LET c == lastStitch.commit
            given == Range(lastStitch.args)
        IN  /\ Len(c.parents) = Cardinality(given)
            /\ TopDirs(c.tree) = {ref[1] : ref \in given}
            /\ DOMAIN c.tree = {p \in DOMAIN c.tree : Len(p) >= 2}
            /\ \A ref \in given :
                  /\ SubTree(c.tree, ref[1]) = lastStitch.resolved[ref].tree
                  /\ lastStitch.resolved[ref] \in Range(c.parents)

-----------------------------------------------------------------------------
(* C19 *)

\* The ref has no "/", or its remote does not exist, or the clone has no
\* commit under that name.
BadRef(ref, repo) ==
    \/ Len(ref) # 2
    \/ ref[1] \notin Remotes
    \/ ref \notin DOMAIN tracking[repo]

\* C19: when a ref of the command line is not of the form remote/branch, or
\* names a remote that does not exist, or resolves to no commit, git-stitch
\* exits with status 1 and creates no commit, wherever the ref stands.
C19_BadRefFails ==
    (lastStitch.exit # -1 /\ \E i \in 1..Len(lastStitch.args) :
                                  BadRef(lastStitch.args[i], lastStitch.repo))
        => lastStitch.exit = 1 /\ lastStitch.commit = NoCommit

\* git-stitch failed on a command line whose first ref is good and whose
\* second is not.
C19_Witness ==
    /\ lastStitch.exit = 1
    /\ Len(lastStitch.args) = 2
    /\ ~BadRef(lastStitch.args[1], lastStitch.repo)
    /\ BadRef(lastStitch.args[2], lastStitch.repo)
    /\ lastStitch.commit = NoCommit

\* Two runs of init that succeeded over the same remotes, resolved to the
\* same commits, under the same environment.
InitTwice ==
    /\ prevInit.exit = 0
    /\ lastInit.exit = 0
    /\ Range(prevInit.args) = Range(lastInit.args)
    /\ Range(prevInit.commit.parents) = Range(lastInit.commit.parents)
    /\ prevInit.env = lastInit.env

\* C16: the commit init builds does not depend on the order of the remotes on
\* the command line: two runs over the same set of remotes, resolved to the
\* same commits, build the same tree, the same parent order and the same
\* commit.
C16_InitOrderIndependent ==
    InitTwice =>
        /\ prevInit.commit.tree = lastInit.commit.tree
        /\ prevInit.commit.parents = lastInit.commit.parents
        /\ prevInit.commit = lastInit.commit

\* C20: after a run of init that succeeded, stitch.remotes lists every
\* remote, remote.<r>.stitch-branch and remote.<r>.stitch-dir hold its branch
\* and its directory, stitch.init-commit holds the commit, and
\* loadRemoteSpecs returns the remotes init created.
C20_ConfigRoundTrip ==
    lastInit.exit = 0 =>
        LET cfg == config[lastInit.repo]
        IN  /\ "stitch.remotes" \in DOMAIN cfg
            /\ "stitch.init-commit" \in DOMAIN cfg
            /\ cfg["stitch.remotes"] = lastInit.args
            /\ cfg["stitch.init-commit"] = lastInit.commit
            /\ \A i \in 1..Len(lastInit.remotes) :
                   LET prefix == "remote." \o lastInit.remotes[i].Remote
                   IN  /\ prefix \o ".stitch-branch" \in DOMAIN cfg
                       /\ prefix \o ".stitch-dir" \in DOMAIN cfg
                       /\ cfg[prefix \o ".stitch-branch"] = lastInit.remotes[i].Branch
                       /\ cfg[prefix \o ".stitch-dir"] = lastInit.remotes[i].Dir
            /\ loadRemoteSpecs(cfg) = [ok |-> TRUE, specs |-> lastInit.remotes]

\* A command line init must refuse: fewer than two names, or a name that is
\* no remote.
InitRefused(args) == Len(args) < 2 \/ \E i \in 1..Len(args) : args[i] \notin Remotes

\* C21: a run of init with fewer than two remote names, or with a name that
\* is no remote, returns an error, creates no commit and leaves every
\* configuration key as it was.
C21_InitRefusedWritesNothing ==
    [][(ninit' = ninit + 1 /\ InitRefused(lastInit'.args))
          => /\ lastInit'.exit = 1
             /\ lastInit'.commit = NoCommit
             /\ config' = config]_vars

\* init was refused for a remote that does not exist, named after one that
\* does, in a repository an earlier run had configured.
C21_Witness ==
    /\ lastInit.exit = 1
    /\ Len(lastInit.args) = 2
    /\ lastInit.args[1] \in Remotes
    /\ lastInit.args[2] \notin Remotes
    /\ prevInit.exit = 0
    /\ prevInit.repo = lastInit.repo
    /\ config[lastInit.repo]["mono.init-commit"] = prevInit.commit

-----------------------------------------------------------------------------
(* C28 *)

\* C28: when the base has as many parents as there are components, no two
\* components start from the same parent (as stated).
C28_HeadsInjective ==
    (HeadsResolved /\ Len(run.baseCommit.parents) = Len(run.remotes))
        => \A k, l \in Range(run.remotes) :
               run.branchHeads[k] = run.branchHeads[l] => k = l

-----------------------------------------------------------------------------
(* C29 *)

\* C29: every commit git-rip creates has a tree that differs from the tree
\* of its parent (as stated).
C29_EveryCommitChangesTree ==
    \A i \in 1..Len(derived) :
        derived[i].commit.tree # derived[i].commit.parents[1].tree

-----------------------------------------------------------------------------
(* C26 *)

\* The query is one this run has made: every commit after the base is shown,
\* the tree of the first parent is read for the first remote, and then the
\* directory of each remote.
Issued(q) ==
    \/ q[1] = "info" /\ q[2] <= Len(Since(run.baseCommit, head))
    \/ q[1] = "tree" /\ q[2] <= Len(run.baseCommit.parents) /\ run.remotes # <<>>
    \/ q[1] = "subtree" /\ q[2] <= Len(run.remotes) /\ <<"tree", 1>> \notin run.failing

\* C26: a run in which a query of the object store has failed does not go
\* on to replay commits: it has ended with status 1 (as stated).
C26_FailedQueryAborts ==
    pc # "idle" => \A q \in run.failing : ~Issued(q)

-----------------------------------------------------------------------------
(* C25 *)

\* The last two runs went to the end under the same environment, from the
\* same base, and the commits made between them change nothing under k.
OnlyOthersChanged(k) ==
    /\ pc = "idle"
    /\ prevRip.exit = 0 /\ prevRip.output = "branches"
    /\ lastRip.exit = 0 /\ lastRip.output = "branches"
    /\ prevRip.env = lastRip.env
    /\ prevRip.base = lastRip.base
    /\ IsAncestor(prevRip.head, lastRip.head)
    /\ LET between == Since(prevRip.head, lastRip.head)
       IN  \A i \in 1..Len(between) : ~Changes(between[i], k)

\* C25: two histories over the same base that differ only in changes outside
\* the directory of component k give k the same reconstructed head, with
\* the same commits below it (as stated).
C25_ComponentsDoNotInterfere ==
    (prevRip.exit = 0 /\ lastRip.exit = 0)
        => \A k \in DOMAIN prevRip.heads \cap DOMAIN lastRip.heads :
               OnlyOthersChanged(k) => prevRip.heads[k] = lastRip.heads[k]

-----------------------------------------------------------------------------
(* C27 *)

\* C27: the commit createDeterministicCommit builds is dated, as author and
\* as committer, with the latest instant among the author dates of its
\* parents, whatever the zones these are recorded in (as stated).
C27_LatestParentDate ==
    lastInit.exit = 0 =>
        LET latest == Largest({lastInit.parents[i].authorTime : i \in 1..Len(lastInit.parents)})
        IN  /\ lastInit.commit.authorTime = latest
            /\ lastInit.commit.committerTime = latest

-----------------------------------------------------------------------------
(* C22 *)

\* The last subcommand was a rebase.
Rebased == lastInit.exit \in {0, 1} /\ lastInit.cmd = "rebase"

\* C22: after a rebase that succeeded, stitch.init-commit names the commit
\* the run created; it is not the previous base, its first parent is the
\* previous base and its other parents are the commits of the refs of the
\* rebased remotes, one for each remote, in their order.
C22_NewBaseOnPreviousBase ==
    (Rebased /\ lastInit.exit = 0) =>
        LET c == config[MonoRepo]["stitch.init-commit"]
            rb == lastInit.rebased
        IN  /\ c = lastInit.newBase
            /\ c # lastInit.prevBase
            /\ lastInit.prevBase = lastInit.configBefore["stitch.init-commit"]
            /\ Len(c.parents) = 1 + Len(rb)
            /\ c.parents[1] = lastInit.prevBase
            /\ \A i \in 1..Len(rb) :
                   c.parents[i + 1] = tracking[MonoRepo][<<rb[i].Remote, rb[i].Branch>>]
            /\ \A i, j \in 1..Len(rb) : rb[i].Remote = rb[j].Remote => i = j

\* A rebase of both remotes succeeded with commits of the user to replay.
C22_Witness ==
    /\ Rebased
    /\ lastInit.exit = 0
    /\ Len(lastInit.rebased) = 2
    /\ lastInit.headBefore # lastInit.prevBase
    /\ head # lastInit.headBefore
    /\ head # lastInit.newBase

-----------------------------------------------------------------------------
(* C30 *)

\* C30: after a rebase that returned an error, stitch.init-commit names the
\* base it named before the run (as stated).
C30_FailedRebaseKeepsBase ==
    (Rebased /\ lastInit.exit = 1 /\ "stitch.init-commit" \in DOMAIN lastInit.configBefore)
        => config[MonoRepo]["stitch.init-commit"] = lastInit.configBefore["stitch.init-commit"]

-----------------------------------------------------------------------------
(* C23 *)

\* The last subcommand was an explode that went to the end.
Exploded == lastInit.exit = 0 /\ lastInit.cmd = "explode"

\* The positions in `created` of the commits made from commit c for remote r.
CreatedFrom(c, r) ==
    {i \in 1..Len(lastInit.created) :
        lastInit.created[i].src = c /\ lastInit.created[i].remote = r}

\* The head of r's ref when the commit at position i was made: the commit
\* made before it for r, or the head the run found.
HeadBefore(i, spec) ==
    LET earlier == {j \in 1..(i - 1) : lastInit.created[j].remote = spec.Remote}
    IN  IF earlier = {} THEN lastInit.trackingBefore[<<spec.Remote, spec.Branch>>]
        ELSE lastInit.created[Largest(earlier)].commit

\* C23: explode makes, for every commit after the stored base and every
\* configured remote whose directory the commit changes, exactly one commit:
\* its tree is the commit's subtree at the directory, its one parent the
\* head of the remote-tracking ref at that time, its message and its author
\* those of the commit; the ref ends on the last of them.  A remote whose
\* directory no commit changes gets no commit and keeps its ref (as stated).
C23_ExplodeOneCommitPerChange ==
    Exploded =>
        LET commits == RevList(lastInit.base, lastInit.head)
            specs == loadRemoteSpecs(config[MonoRepo]).specs
        IN  \A n \in 1..Len(specs) :
                LET spec == specs[n]
                    ref == <<spec.Remote, spec.Branch>>
                    mine == {i \in 1..Len(lastInit.created) :
                                lastInit.created[i].remote = spec.Remote}
                IN  /\ \A k \in 1..Len(commits) :
                           IF Changes(commits[k], spec.Dir)
                           THEN /\ Cardinality(CreatedFrom(commits[k], spec.Remote)) = 1
                                /\ \A i \in CreatedFrom(commits[k], spec.Remote) :
                                       LET new == lastInit.created[i].commit
                                       IN  /\ new.tree = SubTree(commits[k].tree, spec.Dir)
                                           /\ new.parents = <<HeadBefore(i, spec)>>
                                           /\ new.message = commits[k].message
                                           /\ new.authorName = commits[k].authorName
                                           /\ new.authorEmail = commits[k].authorEmail
                           ELSE CreatedFrom(commits[k], spec.Remote) = {}
                    /\ tracking[MonoRepo][ref] =
                           IF mine = {} THEN lastInit.trackingBefore[ref]
                           ELSE lastInit.created[Largest(mine)].commit

-----------------------------------------------------------------------------
(* C24 *)

\* C24: a second explode, no commit made since the first, makes no commit
\* and leaves every remote-tracking ref where the first left it (as stated).
C24_ExplodeTwiceSame ==
    (/\ Exploded
     /\ prevInit.exit = 0 /\ prevInit.cmd = "explode"
     /\ prevInit.head = lastInit.head)
        => /\ lastInit.created = <<>>
           /\ tracking[MonoRepo] = lastInit.trackingBefore

====
